---------------------------- MODULE Spec2Model ----------------------------
(***************************************************************************)
(* A model of the mail orchestration engine of apple-mcp                   *)
(* (src/utils/mail.ts, second implementation, lines 714-1801, and the      *)
(* tool handlers of src/index.ts).                                         *)
(*                                                                         *)
(* The mail application is the variable `store`; every tool call is one    *)
(* action that runs the whole handler against the store, with the          *)
(* behaviour of the scripting bridge (does the access check pass, does a   *)
(* script throw, does run() reject, in which order do parallel scripts     *)
(* complete) drawn nondeterministically and recorded in `env`.             *)
(*                                                                         *)
(* Optional arguments: an absent string is "" (the code tests strings by   *)
(* truthiness, so undefined and "" take the same branch); an absent number *)
(* or boolean is the empty sequence None and a present one is <<v>>.       *)
(***************************************************************************)
EXTENDS Integers, Sequences, FiniteSets, TLC

VARIABLES
    store,      \* the mail application's accounts, mailboxes and messages
    op,         \* the tool that ran last ("idle" before the first call)
    args,       \* its arguments
    env,        \* what the bridge did during the call
    bridgeLog,  \* the bridge primitives the call invoked, in issue order
    result,     \* what the call returned or threw
    previous,   \* the directory returned by the call answered just before,
                \* when that call was listMailboxes (else None)
    boot        \* the start of the process: the loading timer, the eager
                \* load, the calls of initServer and the mode flags

vars == <<store, op, args, env, bridgeLog, result, previous, boot>>

-----------------------------------------------------------------------------
\* Bounds of the model

\* explicit limits passed to listEmails: 0..MaxLimit
MaxLimit == 1
\* longest readEmails request list
MaxRequests == 3

\* Program constants

\* messagesToProcess.slice(0, 200)
FetchCap == 200
\* "Number of emails to retrieve (optional, default 25)"
DefaultLimit == 25
\* Fuse threshold 0.2, in tenths
FuseThreshold == 2

None == <<>>
Some(v) == <<v>>

LocalAccountName == "On My Mac"

-----------------------------------------------------------------------------
\* Generic sequence helpers

RECURSIVE Flat(_)
\* Array.prototype.flat on a sequence of sequences
Flat(seqs) == IF seqs = <<>> THEN <<>> ELSE Head(seqs) \o Flat(Tail(seqs))

\* Array.prototype.slice(0, end) for an integer end
Slice0(s, end) ==
    LET n == Len(s)
        e == IF end < 0 THEN (IF n + end < 0 THEN 0 ELSE n + end)
             ELSE (IF end > n THEN n ELSE end)
    IN  SubSeq(s, 1, e)

Range(s) == {s[i] : i \in 1..Len(s)}

\* permutations of 1..n, as sequences: the orders in which n scripts can complete
Orders(n) == {p \in [1..n -> 1..n] : \A i, j \in 1..n : p[i] = p[j] => i = j}

\* String.prototype.toLowerCase on the mailbox names of the model
\* A faulty lowering that leaves every name as it is (sensitivity of C7).
toLowerCaseIdentity(s) == s

toLowerCase(s) ==
    CASE s = "INBOX"   -> "inbox"
      [] s = "Inbox"   -> "inbox"
      [] s = "inbox"   -> "inbox"
      [] s = "Saved"   -> "saved"
      [] s = "Trash"   -> "trash"
      [] s = "Archive" -> "archive"
      [] OTHER         -> s

-----------------------------------------------------------------------------
\* The mail store

\* msg.dateReceived(): absent for every third message, else a timestamp
DateOf(id) == IF id % 3 = 0 THEN None ELSE Some(id)

\* The Fuse score (in tenths) of the message's subject and sender against the
\* one non-empty search term of the model: ids 1 mod 3 match exactly, ids 2 mod
\* 3 match approximately, ids 0 mod 3 do not match.
ScoreOf(id) == CASE id % 3 = 1 -> 0 [] id % 3 = 2 -> 1 [] OTHER -> 3

MessageOf(id) ==
    [messageId |-> id, dateReceived |-> DateOf(id), isRead |-> (id % 2 = 1),
     isFlagged |-> (id % 4 \in {2, 3}), score |-> ScoreOf(id)]

MailboxOf(n, ids) ==
    [name |-> n, messages |-> [k \in 1..Len(ids) |-> MessageOf(ids[k])]]

\* mailbox names of the two accounts and of the local ("On My Mac") container
Layouts ==
    { [work |-> <<"INBOX", "Saved">>, home |-> <<"Inbox", "Trash">>, local |-> <<"Saved">>],
      [work |-> <<"Saved", "Trash">>, home |-> <<"inbox", "INBOX">>, local |-> <<>>],
      [work |-> <<"Saved">>,          home |-> <<"Trash">>,          local |-> <<"Archive">>] }

\* message ids held by the first and second mailbox of each account, in
\* listing order, and whether the second account is enabled
Fillings ==
    { [work |-> << <<1, 2, 3>>, <<>> >>, home |-> << <<>>, <<>> >>,           homeEnabled |-> TRUE],
      [work |-> << <<1, 2>>, <<>> >>,    home |-> << <<3, 1, 3>>, <<>> >>,    homeEnabled |-> TRUE],
      [work |-> << <<>>, <<2>> >>,       home |-> << <<1>>, <<3>> >>,         homeEnabled |-> FALSE],
      [work |-> << <<>>, <<>> >>,        home |-> << <<2, 1>>, <<3, 2>> >>,   homeEnabled |-> TRUE],
      [work |-> << <<2>>, <<>> >>,       home |-> << <<2, 1>>, <<3>> >>,      homeEnabled |-> FALSE] }

StoreOf(layout, filling) ==
    [accounts |->
        << [name |-> "Work", enabled |-> TRUE,
            mailboxes |-> [k \in 1..Len(layout.work) |->
                              MailboxOf(layout.work[k], filling.work[k])]],
           [name |-> "Home", enabled |-> filling.homeEnabled,
            mailboxes |-> [k \in 1..Len(layout.home) |->
                              MailboxOf(layout.home[k], filling.home[k])]] >>,
     localMailboxes |-> [k \in 1..Len(layout.local) |-> [name |-> layout.local[k]]],
     drafts |-> 0]

\* one inbox holding one message more than the documented default limit
BulkStore ==
    [accounts |->
        << [name |-> "Work", enabled |-> TRUE,
            mailboxes |-> << MailboxOf("INBOX", [k \in 1..(DefaultLimit + 1) |-> k]) >>] >>,
     localMailboxes |-> <<>>,
     drafts |-> 0]

\* one account that the user named like the local container, with a Trash and
\* an Archive mailbox; the local container has an "Archive" mailbox too
TwinStore ==
    [accounts |->
        << [name |-> LocalAccountName, enabled |-> TRUE,
            mailboxes |-> << MailboxOf("INBOX", <<1, 2>>), MailboxOf("Trash", <<>>),
                             MailboxOf("Archive", <<>>) >>] >>,
     localMailboxes |-> << [name |-> "Archive"], [name |-> "Saved"] >>,
     drafts |-> 0]

\* two accounts whose inboxes share message 1 and hold one undated message
\* each
UndatedStore ==
    [accounts |->
        << [name |-> "Work", enabled |-> TRUE,
            mailboxes |-> << MailboxOf("INBOX", <<3, 1>>) >>],
           [name |-> "Home", enabled |-> TRUE,
            mailboxes |-> << MailboxOf("INBOX", <<6, 1>>) >>] >>,
     localMailboxes |-> <<>>,
     drafts |-> 0]

Stores ==
    {StoreOf(l, f) : l \in Layouts, f \in Fillings} \cup {BulkStore, TwinStore, UndatedStore}

\* Mail.accounts.byName(name): the first account of that name, if any
AccountsByName(st, name) ==
    SelectSeq(st.accounts, LAMBDA a : a.name = name)

\* theAccount.mailboxes.byName(name): the first mailbox of that name, if any
MailboxesByName(acct, name) ==
    SelectSeq(acct.mailboxes, LAMBDA m : m.name = name)

-----------------------------------------------------------------------------
\* Results and errors

NoError == [kind |-> "none", account |-> "", mailbox |-> "", listed |-> <<>>]

\* an Error whose message names `account` and `mailbox` and lists `listed`
Error(kind, account, mailbox, listed) ==
    [kind |-> kind, account |-> account, mailbox |-> mailbox, listed |-> listed]

\* one bridge primitive invoked by a call
Invocation(prim, account, mailbox, messageId) ==
    [prim |-> prim, account |-> account, mailbox |-> mailbox, messageId |-> messageId]

-----------------------------------------------------------------------------
\* listMailboxes

\* `${mb.account}/${mb.mailbox}`
MailboxKey(mb) == mb.account \o "/" \o mb.mailbox

\* A faulty filter that keeps every entry (sensitivity of C11).
UniqueMailboxesKeepAll(mbs, seen) == mbs

RECURSIVE UniqueMailboxes(_, _)
\* mailboxes.filter(...) with seenMailboxKeys: the first entry of every key
UniqueMailboxes(mbs, seen) ==
    IF mbs = <<>> THEN <<>>
    ELSE LET key == MailboxKey(Head(mbs))
         IN  IF key \in seen THEN UniqueMailboxes(Tail(mbs), seen)
             ELSE <<Head(mbs)>> \o UniqueMailboxes(Tail(mbs), seen \cup {key})

\* The script of listMailboxes: the mailboxes of all accounts, then the local
\* mailboxes tagged "On My Mac", deduplicated.  `localSeen` is the number of
\* local mailboxes pushed before the local enumeration threw (all of them when
\* it did not throw); the exception is swallowed.
listMailboxesScript(st, localSeen) ==
    LET ofAccounts ==
            Flat([i \in 1..Len(st.accounts) |->
                    [k \in 1..Len(st.accounts[i].mailboxes) |->
                        [account |-> st.accounts[i].name,
                         mailbox |-> st.accounts[i].mailboxes[k].name]]])
        ofLocal ==
            [k \in 1..localSeen |->
                [account |-> LocalAccountName, mailbox |-> st.localMailboxes[k].name]]
    IN  UniqueMailboxes(ofAccounts \o ofLocal, {})

\* [...new Set(allMailboxes.map((mb) => mb.account))]: first occurrences, in order
RECURSIVE UniqueNames(_, _)
UniqueNames(names, seen) ==
    IF names = <<>> THEN <<>>
    ELSE IF Head(names) \in seen THEN UniqueNames(Tail(names), seen)
    ELSE <<Head(names)>> \o UniqueNames(Tail(names), seen \cup {Head(names)})

AccountNames(mbs) == UniqueNames([k \in 1..Len(mbs) |-> mbs[k].account], {})
MailboxNames(mbs) == UniqueNames([k \in 1..Len(mbs) |-> mbs[k].mailbox], {})

\* allMailboxes.filter((mb) => mb.account === name).map((mb) => mb.mailbox)
MailboxesOfAccount(mbs, name) ==
    LET own == SelectSeq(mbs, LAMBDA mb : mb.account = name)
    IN  [k \in 1..Len(own) |-> own[k].mailbox]

\* listMailboxes as the tool calls it: [result, log].  checkMailAccess throws
\* when Mail cannot be reached; a rejected run() fails the call; else the call
\* returns what the script collected.
listMailboxes(st, e) ==
    IF ~e.access
    THEN [result |-> [status |-> "threw", mailboxes |-> <<>>,
                      error |-> Error("AccessFailed", "", "", <<>>)],
          log |-> <<>>]
    ELSE IF e.directory # "ok"
    THEN [result |-> [status |-> "threw", mailboxes |-> <<>>,
                      error |-> Error("DirectoryFailed", "", "", <<>>)],
          log |-> << Invocation("listMailboxes", "", "", 0) >>]
    ELSE [result |-> [status |-> "returned",
                      mailboxes |-> listMailboxesScript(st, e.local), error |-> NoError],
          log |-> << Invocation("listMailboxes", "", "", 0) >>]

-----------------------------------------------------------------------------
\* listEmails

\* A `limit` argument: absent, a number, or (ill-typed) the string "5".
NoLimit == [type |-> "undefined", value |-> 0]
NumLimit(n) == [type |-> "number", value |-> n]
StringLimit == [type |-> "string", value |-> 5]

\* JavaScript truthiness of a limit: undefined and 0 are falsy
Truthy(l) == l.type # "undefined" /\ l.value # 0

\* The argument check of the tool handler.  Only `limit` can be ill-typed in
\* the model; a falsy limit (absent or 0) passes whatever its type.
isListEmailsArgs(a) == ~(Truthy(a.limit) /\ a.limit.type # "number")

\* A faulty validation that accepts every name (sensitivity of C9).
ValidateTargetsAcceptAll(all, a) == NoError

\* Lines 931-955: the named account, then the named mailbox, must be in the
\* directory; both comparisons are exact (case-sensitive).
ValidateTargets(all, a) ==
    IF a.accountName # "" /\ ~(\E i \in 1..Len(all) : all[i].account = a.accountName)
    THEN Error("AccountNotFound", a.accountName, "", AccountNames(all))
    ELSE IF a.mailboxName # ""
            /\ ~(\E i \in 1..Len(all) :
                    IF a.accountName # ""
                    THEN all[i].account = a.accountName /\ all[i].mailbox = a.mailboxName
                    ELSE all[i].mailbox = a.mailboxName)
    THEN Error("MailboxNotFound", a.accountName, a.mailboxName,
               IF a.accountName # "" THEN MailboxesOfAccount(all, a.accountName)
               ELSE MailboxNames(all))
    ELSE NoError

\* self.findIndex((t) => t.account === mb.account && t.mailbox === mb.mailbox)
FindIndex(mbs, mb) ==
    CHOOSE i \in 1..Len(mbs) :
        /\ mbs[i].account = mb.account /\ mbs[i].mailbox = mb.mailbox
        /\ \A j \in 1..(i - 1) :
              ~(mbs[j].account = mb.account /\ mbs[j].mailbox = mb.mailbox)

\* mailboxesToFetch.filter((mb, index, self) => index === self.findIndex(...))
UniqueTargets(mbs) ==
    LET keep == {i \in 1..Len(mbs) : FindIndex(mbs, mbs[i]) = i}
        Nth[k \in 0..Len(mbs)] ==
            IF k = 0 THEN <<>>
            ELSE IF k \in keep THEN Append(Nth[k - 1], mbs[k]) ELSE Nth[k - 1]
    IN  Nth[Len(mbs)]

\* Lines 1012-1049: the mailboxes to fetch, or the no-inbox error.
mailboxesToFetch(all, a) ==
    IF a.accountName # "" /\ a.mailboxName # ""
    THEN [error |-> NoError,
          mailboxes |-> << [account |-> a.accountName, mailbox |-> a.mailboxName] >>]
    ELSE IF a.accountName # ""
    THEN LET inboxes == SelectSeq(all, LAMBDA mb :
                            mb.account = a.accountName /\ toLowerCase(mb.mailbox) = "inbox")
         IN  IF inboxes = <<>>
             THEN [error |-> Error("NoInboxFound", a.accountName, "",
                                   MailboxesOfAccount(all, a.accountName)),
                   mailboxes |-> <<>>]
             ELSE [error |-> NoError,
                   \* .pop(): the last match
                   mailboxes |-> << [account |-> a.accountName,
                                     mailbox |-> inboxes[Len(inboxes)].mailbox] >>]
    ELSE LET wanted == IF a.mailboxName # "" THEN toLowerCase(a.mailboxName) ELSE "inbox"
         IN  [error |-> NoError,
              mailboxes |-> UniqueTargets(
                  SelectSeq(all, LAMBDA mb : toLowerCase(mb.mailbox) = wanted))]

\* What the directory step and the resolution step of listEmails yield.
Resolve(st, a, localSeen) ==
    LET all == listMailboxesScript(st, localSeen)
        invalid == ValidateTargets(all, a)
    IN  IF invalid.kind # "none" THEN [error |-> invalid, mailboxes |-> <<>>]
        ELSE mailboxesToFetch(all, a)

\* How one run() of a bridge script can end: normally, with an exception inside
\* the script's own try block, or with run() itself rejecting.
FetchOutcomes == {"ok", "scriptError", "reject"}

\* getEmailsFromMailboxJXA: the records of the first 200 messages of the
\* mailbox; [] for a missing or disabled account, a missing mailbox or an
\* exception inside the script.
getEmailsFromMailboxJXA(st, account, mailbox, outcome) ==
    LET accts == AccountsByName(st, account)
        boxes == IF accts = <<>> THEN <<>> ELSE MailboxesByName(accts[1], mailbox)
        msgs  == IF boxes = <<>> THEN <<>> ELSE Slice0(boxes[1].messages, FetchCap)
    IN  IF outcome = "scriptError" \/ accts = <<>> \/ boxes = <<>> THEN <<>>
        ELSE IF ~accts[1].enabled THEN <<>>
        ELSE [k \in 1..Len(msgs) |->
                 [account |-> account, mailbox |-> mailbox,
                  messageId |-> msgs[k].messageId,
                  dateReceived |-> msgs[k].dateReceived,
                  isRead |-> msgs[k].isRead, isFlagged |-> msgs[k].isFlagged,
                  score |-> msgs[k].score]]

\* A faulty Promise.all that yields the values in the order in which the
\* promises settled (sensitivity of C29).
PromiseAllBySettling(values, outcomes, order) ==
    [rejected |-> \E k \in 1..Len(order) : outcomes[k] = "reject",
     first |-> 0,
     values |-> [i \in 1..Len(values) |-> values[order[i]]]]

\* Promise.all: rejects, with the reason of the promise that rejected first,
\* when a promise rejected; else resolves with the values in the order of the
\* promises, whatever the order in which they settled.  `order` lists the
\* promises in the order they settled; `first` is 0 when none rejected.
PromiseAll(values, outcomes, order) ==
    LET failed == {k \in 1..Len(order) : outcomes[order[k]] = "reject"}
    IN  [rejected |-> failed # {},
         first |-> IF failed = {} THEN 0
                   ELSE order[CHOOSE k \in failed : \A j \in failed : k <= j],
         values |-> [i \in 1..Len(values) |-> values[i]]]

\* A faulty filter that keeps every email (sensitivity of C5).
UniqueEmailsKeepAll(emails, seen) == emails

RECURSIVE UniqueEmails(_, _)
\* allEmails.filter(...) with seenMessageIds: the first email of every messageId
UniqueEmails(emails, seen) ==
    IF emails = <<>> THEN <<>>
    ELSE IF Head(emails).messageId \in seen THEN UniqueEmails(Tail(emails), seen)
    ELSE <<Head(emails)>> \o UniqueEmails(Tail(emails), seen \cup {Head(emails).messageId})

\* a.dateReceived ? new Date(a.dateReceived).getTime() : 0
DateKey(m) == IF m.dateReceived = None THEN 0 ELSE m.dateReceived[1]

RECURSIVE InsertByDate(_, _)
InsertByDate(sorted, m) ==
    IF sorted = <<>> THEN <<m>>
    ELSE IF DateKey(Head(sorted)) >= DateKey(m)
         THEN <<Head(sorted)>> \o InsertByDate(Tail(sorted), m)
         ELSE <<m>> \o sorted

RECURSIVE SortByDate(_)
\* allEmails.sort((a, b) => dateB - dateA): newest first, stable
SortByDate(emails) ==
    IF emails = <<>> THEN <<>>
    ELSE InsertByDate(SortByDate(SubSeq(emails, 1, Len(emails) - 1)), emails[Len(emails)])

RECURSIVE InsertByScore(_, _)
InsertByScore(sorted, m) ==
    IF sorted = <<>> THEN <<m>>
    ELSE IF Head(sorted).score <= m.score
         THEN <<Head(sorted)>> \o InsertByScore(Tail(sorted), m)
         ELSE <<m>> \o sorted

RECURSIVE SortByScore(_)
SortByScore(emails) ==
    IF emails = <<>> THEN <<>>
    ELSE InsertByScore(SortByScore(SubSeq(emails, 1, Len(emails) - 1)), emails[Len(emails)])

\* fuse.search(searchTerm).map((result) => result.item): the items whose score
\* is within the threshold, best score first, equal scores in list order
FuseSearch(emails) ==
    SortByScore(SelectSeq(emails, LAMBDA m : m.score <= FuseThreshold))

\* Lines 1060-1096: flatten, deduplicate, sort, search, filter, truncate.
PostProcess(byMailbox, a) ==
    LET unique   == UniqueEmails(Flat(byMailbox), {})
        sorted   == SortByDate(unique)
        searched == IF a.searchTerm # "" THEN FuseSearch(sorted) ELSE sorted
        byRead   == IF a.isRead # None
                    THEN SelectSeq(searched, LAMBDA m : m.isRead = a.isRead[1])
                    ELSE searched
        byFlag   == IF a.isFlagged # None
                    THEN SelectSeq(byRead, LAMBDA m : m.isFlagged = a.isFlagged[1])
                    ELSE byRead
    IN  IF Truthy(a.limit) THEN Slice0(byFlag, a.limit.value) ELSE byFlag

Returned(emails) == [status |-> "returned", emails |-> emails, error |-> NoError]
Threw(error) == [status |-> "threw", emails |-> <<>>, error |-> error]

\* listEmails: [result, log].  Every error is caught at line 1097 and thrown
\* again with the message wrapped.
listEmails(st, a, e, order) ==
    IF ~e.access
    THEN [result |-> Threw(Error("AccessFailed", "", "", <<>>)), log |-> <<>>]
    ELSE IF e.directory # "ok"
    THEN [result |-> Threw(Error("DirectoryFailed", "", "", <<>>)),
          log |-> << Invocation("listMailboxes", "", "", 0) >>]
    ELSE
      LET res == Resolve(st, a, e.local)
          targets == res.mailboxes
          fetches == [k \in 1..Len(targets) |->
                         Invocation("fetch", targets[k].account, targets[k].mailbox, 0)]
          fetched == [k \in 1..Len(targets) |->
                         getEmailsFromMailboxJXA(st, targets[k].account,
                                                 targets[k].mailbox, e.scripts[k])]
          all == PromiseAll(fetched, e.scripts, order)
      IN  IF res.error.kind # "none"
          THEN [result |-> Threw(res.error),
                log |-> << Invocation("listMailboxes", "", "", 0) >>]
          ELSE IF Len(targets) = 0
          THEN [result |-> Returned(<<>>),
                log |-> << Invocation("listMailboxes", "", "", 0) >>]
          ELSE IF all.rejected
          THEN [result |-> Threw(Error("ScriptRejected", "", "", <<>>)),
                log |-> << Invocation("listMailboxes", "", "", 0) >> \o fetches]
          ELSE [result |-> Returned(PostProcess(all.values, a)),
                log |-> << Invocation("listMailboxes", "", "", 0) >> \o fetches]

-----------------------------------------------------------------------------
\* Locating a message

\* The scan shared by the scripts that look a message up by id: accounts in
\* listing order (only the enabled ones when `enabledOnly`), their mailboxes in
\* listing order, the first message of that id in the first mailbox that has
\* one.  <<>> when no scanned mailbox holds the id, else one location.
Locate(st, id, enabledOnly) ==
    LET hits ==
            Flat([i \in 1..Len(st.accounts) |->
                IF enabledOnly /\ ~st.accounts[i].enabled THEN <<>>
                ELSE Flat([k \in 1..Len(st.accounts[i].mailboxes) |->
                        IF \E n \in 1..Len(st.accounts[i].mailboxes[k].messages) :
                              st.accounts[i].mailboxes[k].messages[n].messageId = id
                        THEN << [account |-> st.accounts[i].name,
                                 mailbox |-> st.accounts[i].mailboxes[k].name,
                                 accountIndex |-> i, mailboxIndex |-> k] >>
                        ELSE <<>>])])
    IN  IF hits = <<>> THEN <<>> ELSE <<hits[1]>>

-----------------------------------------------------------------------------
\* readEmails

\* A read request: the messageId and the optional account and mailbox hints
\* that the tool handler passes on.
ReadRequest(id, account, mailbox) ==
    [messageId |-> id, account |-> account, mailbox |-> mailbox]

\* The argument check of the tool handler: a non-empty array of requests.
isReadEmailsArgs(reqs) == Len(reqs) > 0

\* A faulty filter that keeps every request (sensitivity of C18).
UniqueRequestsKeepAll(reqs, seen) == reqs

RECURSIVE UniqueRequests(_, _)
\* readRequests.filter(...) with seenMessageIds: the first request of every id
UniqueRequests(reqs, seen) ==
    IF reqs = <<>> THEN <<>>
    ELSE IF Head(reqs).messageId \in seen THEN UniqueRequests(Tail(reqs), seen)
    ELSE <<Head(reqs)>> \o UniqueRequests(Tail(reqs), seen \cup {Head(reqs).messageId})

ReadItem(id, success, account, mailbox, error) ==
    [messageId |-> id, success |-> success, account |-> account,
     mailbox |-> mailbox, error |-> error]

\* readMessage: the script scans the enabled accounts for request.messageId.
readMessage(st, request) ==
    LET at == Locate(st, request.messageId, TRUE)
    IN  IF at = <<>> THEN ReadItem(request.messageId, FALSE, "", "", "NotFound")
        ELSE ReadItem(request.messageId, TRUE, at[1].account, at[1].mailbox, "none")

\* readEmails: [result, log].
readEmails(st, reqs, e, order) ==
    LET unique == UniqueRequests(reqs, {})
        lookups == [k \in 1..Len(unique) |-> Invocation("lookup", "", "", unique[k].messageId)]
        all == PromiseAll([k \in 1..Len(unique) |-> readMessage(st, unique[k])],
                          e.scripts, order)
    IN  IF ~e.access
        THEN [result |-> [status |-> "returned",
                          items |-> [i \in 1..Len(reqs) |->
                              ReadItem(reqs[i].messageId, FALSE, "", "", "AccessFailed")]],
              log |-> <<>>]
        ELSE IF all.rejected
        THEN [result |-> [status |-> "returned",
                          items |-> [i \in 1..Len(reqs) |->
                              ReadItem(reqs[i].messageId, FALSE, "", "", "ScriptRejected")]],
              log |-> lookups]
        ELSE [result |-> [status |-> "returned", items |-> all.values], log |-> lookups]

\* The response of the readEmails case of the tool handler: the items, and
\* isError: results.some((r) => !r.success).
readEmailsResponse(items) ==
    [status |-> "returned", items |-> items,
     isError |-> \E i \in 1..Len(items) : ~items[i].success]

-----------------------------------------------------------------------------
\* moveEmails and copyEmails

\* A faulty validation that checks the account alone (sensitivity of C6).
ValidateTargetAccountOnly(all, req) ==
    IF \E i \in 1..Len(all) : all[i].account = req.targetAccountName
    THEN NoError
    ELSE Error("AccountNotFound", req.targetAccountName, "", AccountNames(all))

\* Lines 1236-1260 and 1380-1404: the pair targetAccountName/targetMailboxName
\* must be a key of the directory; the error lists the mailboxes of the target
\* account when the directory has any, else the accounts.
ValidateTarget(all, req) ==
    IF \E i \in 1..Len(all) :
          MailboxKey(all[i]) = req.targetAccountName \o "/" \o req.targetMailboxName
    THEN NoError
    ELSE IF MailboxesOfAccount(all, req.targetAccountName) # <<>>
    THEN Error("MailboxNotFound", req.targetAccountName, req.targetMailboxName,
               MailboxesOfAccount(all, req.targetAccountName))
    ELSE Error("AccountNotFound", req.targetAccountName, "", AccountNames(all))

\* The store with message n of mailbox k of account i removed.
RemoveMessage(st, i, k, n) ==
    LET msgs == st.accounts[i].mailboxes[k].messages
    IN  [st EXCEPT !.accounts[i].mailboxes[k].messages =
            SubSeq(msgs, 1, n - 1) \o SubSeq(msgs, n + 1, Len(msgs))]

\* The store with `msg` added at the end of mailbox k of account i.
AddMessage(st, i, k, msg) ==
    [st EXCEPT !.accounts[i].mailboxes[k].messages = Append(@, msg)]

\* Index of the first account / mailbox of a name, 0 when there is none.
AccountIndex(st, name) ==
    IF \E i \in 1..Len(st.accounts) : st.accounts[i].name = name
    THEN CHOOSE i \in 1..Len(st.accounts) :
            /\ st.accounts[i].name = name
            /\ \A j \in 1..(i - 1) : st.accounts[j].name # name
    ELSE 0

MailboxIndex(st, i, name) ==
    IF i # 0 /\ \E k \in 1..Len(st.accounts[i].mailboxes) :
                    st.accounts[i].mailboxes[k].name = name
    THEN CHOOSE k \in 1..Len(st.accounts[i].mailboxes) :
            /\ st.accounts[i].mailboxes[k].name = name
            /\ \A j \in 1..(k - 1) : st.accounts[i].mailboxes[j].name # name
    ELSE 0

\* How the script of a move or copy can end: normally, with the move or
\* duplicate primitive throwing, or with run() itself rejecting.
MutateOutcomes == {"ok", "scriptError", "reject"}

\* The script of moveEmails (keep = FALSE) and copyEmails (keep = TRUE): scan
\* all accounts for the message; when found, call Mail.move / Mail.duplicate
\* with the reference of the target mailbox.  The primitive throws when the
\* reference does not resolve (no such account or mailbox).
\* [success, store, log]
TransferScript(st, req, outcome, keep) ==
    LET at == Locate(st, req.messageId, FALSE)
        ti == AccountIndex(st, req.targetAccountName)
        tk == MailboxIndex(st, ti, req.targetMailboxName)
        call == Invocation(IF keep THEN "duplicate" ELSE "move",
                           req.targetAccountName, req.targetMailboxName, req.messageId)
    IN  IF at = <<>> THEN [success |-> FALSE, store |-> st, log |-> <<>>]
        ELSE IF outcome # "ok" \/ tk = 0
        THEN [success |-> FALSE, store |-> st, log |-> <<call>>]
        ELSE LET i == at[1].accountIndex
                 k == at[1].mailboxIndex
                 msgs == st.accounts[i].mailboxes[k].messages
                 n == CHOOSE n \in 1..Len(msgs) :
                         /\ msgs[n].messageId = req.messageId
                         /\ \A j \in 1..(n - 1) : msgs[j].messageId # req.messageId
                 taken == IF keep THEN st ELSE RemoveMessage(st, i, k, n)
             IN  [success |-> TRUE, store |-> AddMessage(taken, ti, tk, msgs[n]),
                  log |-> <<call>>]

\* What a concurrent actor (the user in Mail, another client) does to the store
\* while a move or copy is under way: scripts[2], absent when nothing happens.
\* "targetRemoved": the target mailbox is deleted after the directory was
\* listed and before the script runs.  "messageTaken": the message is taken out
\* of its mailbox after the script located it and before the primitive runs.
\* (A message taken away before the script scans is a script run on another
\* store: the scan finds the id elsewhere or not at all.)
Interference(steps) == IF Len(steps) >= 2 THEN steps[2] ELSE "none"

\* The store without the target mailbox: the first mailbox of that name of the
\* first account of that name, else the local mailbox of that name.
RemoveTarget(st, req) ==
    LET ti == AccountIndex(st, req.targetAccountName)
        tk == MailboxIndex(st, ti, req.targetMailboxName)
    IN  IF tk # 0
        THEN [st EXCEPT !.accounts[ti].mailboxes =
                SubSeq(@, 1, tk - 1) \o SubSeq(@, tk + 1, Len(@))]
        ELSE [st EXCEPT !.localMailboxes =
                SelectSeq(@, LAMBDA b : b.name # req.targetMailboxName)]

\* The store the script runs on.
BeforeScript(st, req, steps) ==
    IF Interference(steps) = "targetRemoved" THEN RemoveTarget(st, req) ELSE st

\* A faulty bridge in which a reference to a message that was taken away
\* still resolves (sensitivity of C25).
PrimitiveOutcomeIgnoringStale(steps) == steps[1]

\* How Mail.move / Mail.duplicate ends: it throws on a reference to a message
\* that is no longer in the mailbox it was found in.
PrimitiveOutcome(steps) ==
    IF Interference(steps) = "messageTaken" THEN "scriptError" ELSE steps[1]

\* The store after the script, the actor having taken the located message.
AfterScript(st, req, steps) ==
    LET at == Locate(st, req.messageId, FALSE)
    IN  IF Interference(steps) = "messageTaken" /\ at # <<>>
        THEN RemoveMessage(st, at[1].accountIndex, at[1].mailboxIndex,
                 CHOOSE n \in 1..Len(st.accounts[at[1].accountIndex]
                                       .mailboxes[at[1].mailboxIndex].messages) :
                    /\ st.accounts[at[1].accountIndex].mailboxes[at[1].mailboxIndex]
                         .messages[n].messageId = req.messageId
                    /\ \A j \in 1..(n - 1) :
                         st.accounts[at[1].accountIndex].mailboxes[at[1].mailboxIndex]
                           .messages[j].messageId # req.messageId)
        ELSE st

\* A faulty result whose item reports success and no error whatever happened
\* (sensitivity of C27).
TransferResultItemOk(id, success, error) ==
    [status |-> "returned", success |-> success,
     item |-> [messageId |-> id, success |-> TRUE, error |-> NoError]]

TransferResult(id, success, error) ==
    [status |-> "returned", success |-> success,
     item |-> [messageId |-> id, success |-> success, error |-> error]]

\* moveEmails / copyEmails: [result, store, log].
Transfer(st, req, e, keep) ==
    IF ~e.access
    THEN [result |-> TransferResult(req.messageId, FALSE, Error("AccessFailed", "", "", <<>>)),
          store |-> st, log |-> <<>>]
    ELSE IF e.directory # "ok"
    THEN [result |-> TransferResult(req.messageId, FALSE, Error("DirectoryFailed", "", "", <<>>)),
          store |-> st, log |-> << Invocation("listMailboxes", "", "", 0) >>]
    ELSE
      LET invalid == ValidateTarget(listMailboxesScript(st, e.local), req)
          script == TransferScript(BeforeScript(st, req, e.scripts), req,
                                   PrimitiveOutcome(e.scripts), keep)
      IN  IF invalid.kind # "none"
          THEN [result |-> TransferResult(req.messageId, FALSE, invalid),
                store |-> st, log |-> << Invocation("listMailboxes", "", "", 0) >>]
          ELSE IF e.scripts[1] = "reject"
          THEN [result |-> TransferResult(req.messageId, FALSE,
                                          Error("ScriptRejected", "", "", <<>>)),
                store |-> st, log |-> << Invocation("listMailboxes", "", "", 0) >>]
          ELSE [result |-> TransferResult(req.messageId, script.success,
                              IF script.success THEN NoError
                              ELSE Error("OperationFailed", "", "", <<>>)),
                store |-> AfterScript(script.store, req, e.scripts),
                log |-> << Invocation("listMailboxes", "", "", 0) >> \o script.log]

moveEmails(st, req, e) == Transfer(st, req, e, FALSE)
copyEmails(st, req, e) == Transfer(st, req, e, TRUE)

-----------------------------------------------------------------------------
\* archiveEmails

\* Index of the first message of the id in a message list (the id is there).
FirstOf(msgs, id) ==
    CHOOSE n \in 1..Len(msgs) :
        /\ msgs[n].messageId = id
        /\ \A j \in 1..(n - 1) : msgs[j].messageId # id

\* How the steps of the archive script can go: scripts[1] is Mail.archive
\* ("ok", "fail" when it throws, "reject" when run() itself rejects),
\* scripts[2] the move to Trash, scripts[3] the lookup of the message in Trash,
\* scripts[4] the move to Archive.  A step the script does not reach is absent.
ArchiveOutcomes ==
    { <<"reject">>, <<"ok">>, <<"fail", "fail">>, <<"fail", "ok", "fail">>,
      <<"fail", "ok", "ok", "fail">>, <<"fail", "ok", "ok", "ok">> }

Step(steps, k) == IF k <= Len(steps) THEN steps[k] ELSE "fail"

\* A faulty lookup that always finds the message in Trash (sensitivity of C15).
FoundInTrashAlways(steps) == TRUE

\* messagesInTrash.length > 0, the lookup not having thrown
FoundInTrash(steps) == Step(steps, 3) = "ok"

\* Mail.archive(message): the message goes to the Archive mailbox of its
\* account, which Mail creates when the account has none.
NativeArchive(st, i, k, n) ==
    LET msg == st.accounts[i].mailboxes[k].messages[n]
        taken == RemoveMessage(st, i, k, n)
        ai == MailboxIndex(st, i, "Archive")
    IN  IF ai # 0 THEN AddMessage(taken, i, ai, msg)
        ELSE [taken EXCEPT !.accounts[i].mailboxes =
                  Append(@, [name |-> "Archive", messages |-> <<msg>>])]

\* The script of archiveEmails: find the message in the enabled accounts; try
\* Mail.archive; when it throws, move the message to the Trash of its account,
\* look it up there and move it on to Archive.  [success, store, log]
ArchiveScript(st, id, steps) ==
    LET at == Locate(st, id, TRUE)
    IN  IF at = <<>> THEN [success |-> FALSE, store |-> st, log |-> <<>>]
        ELSE
          LET i == at[1].accountIndex
              k == at[1].mailboxIndex
              n == FirstOf(st.accounts[i].mailboxes[k].messages, id)
              msg == st.accounts[i].mailboxes[k].messages[n]
              ti == MailboxIndex(st, i, "Trash")
              ai == MailboxIndex(st, i, "Archive")
              native == Invocation("archive", at[1].account, at[1].mailbox, id)
              toTrash == Invocation("move", at[1].account, "Trash", id)
              inTrash == Invocation("findInTrash", at[1].account, "Trash", id)
              toArchive == Invocation("move", at[1].account, "Archive", id)
              trashed == AddMessage(RemoveMessage(st, i, k, n), i, ti, msg)
          IN  IF Step(steps, 1) = "ok"
              THEN [success |-> TRUE, store |-> NativeArchive(st, i, k, n),
                    log |-> <<native>>]
              ELSE IF ti = 0 \/ Step(steps, 2) # "ok"
              THEN [success |-> FALSE, store |-> st, log |-> <<native, toTrash>>]
              ELSE IF ~FoundInTrash(steps)
              THEN [success |-> FALSE, store |-> trashed,
                    log |-> <<native, toTrash, inTrash>>]
              ELSE IF ai = 0 \/ Step(steps, 4) # "ok"
              THEN [success |-> FALSE, store |-> trashed,
                    log |-> <<native, toTrash, inTrash, toArchive>>]
              ELSE [success |-> TRUE,
                    store |-> AddMessage(
                        RemoveMessage(trashed, i, ti,
                            FirstOf(trashed.accounts[i].mailboxes[ti].messages, id)),
                        i, ai, msg),
                    log |-> <<native, toTrash, inTrash, toArchive>>]

\* archiveEmails: [result, store, log].
archiveEmails(st, req, e) ==
    IF ~e.access
    THEN [result |-> TransferResult(req.messageId, FALSE, Error("AccessFailed", "", "", <<>>)),
          store |-> st, log |-> <<>>]
    ELSE IF Step(e.scripts, 1) = "reject"
    THEN [result |-> TransferResult(req.messageId, FALSE,
                                    Error("ScriptRejected", "", "", <<>>)),
          store |-> st, log |-> <<>>]
    ELSE LET script == ArchiveScript(st, req.messageId, e.scripts)
         IN  [result |-> TransferResult(req.messageId, script.success,
                             IF script.success THEN NoError
                             ELSE Error("OperationFailed", "", "", <<>>)),
              store |-> script.store, log |-> script.log]

-----------------------------------------------------------------------------
\* trashEmails

\* The script of trashEmails: scan all accounts for the message; when found,
\* move it to the mailbox named Trash of its account.  The move throws when
\* the account has no such mailbox.  [success, store, log]
TrashScript(st, id, outcome) ==
    LET at == Locate(st, id, FALSE)
    IN  IF at = <<>> THEN [success |-> FALSE, store |-> st, log |-> <<>>]
        ELSE
          LET i == at[1].accountIndex
              k == at[1].mailboxIndex
              n == FirstOf(st.accounts[i].mailboxes[k].messages, id)
              msg == st.accounts[i].mailboxes[k].messages[n]
              ti == MailboxIndex(st, i, "Trash")
              call == Invocation("move", at[1].account, "Trash", id)
          IN  IF outcome # "ok" \/ ti = 0
              THEN [success |-> FALSE, store |-> st, log |-> <<call>>]
              ELSE [success |-> TRUE,
                    store |-> AddMessage(RemoveMessage(st, i, k, n), i, ti, msg),
                    log |-> <<call>>]

\* trashEmails: [result, store, log].
trashEmails(st, req, e) ==
    IF ~e.access
    THEN [result |-> TransferResult(req.messageId, FALSE, Error("AccessFailed", "", "", <<>>)),
          store |-> st, log |-> <<>>]
    ELSE IF Step(e.scripts, 1) = "reject"
    THEN [result |-> TransferResult(req.messageId, FALSE,
                                    Error("ScriptRejected", "", "", <<>>)),
          store |-> st, log |-> <<>>]
    ELSE LET script == TrashScript(st, req.messageId, e.scripts[1])
         IN  [result |-> TransferResult(req.messageId, script.success,
                             IF script.success THEN NoError
                             ELSE Error("OperationFailed", "", "", <<>>)),
              store |-> script.store, log |-> script.log]

-----------------------------------------------------------------------------
\* createDraft

\* originalMessageId as the tool receives it: absent (None) or a string; the
\* message ids of the model are numbers and 0 stands for the empty string.
TruthyId(o) == o # None /\ o[1] # 0

\* The argument check of the tool handler (subject and body are strings in
\* the model): a reply must carry an originalMessageId of type string.
isCreateDraftArgs(a) == ~(a.isReply /\ a.originalMessageId = None)

\* A faulty handler check that lets every reply through (sensitivity of C16).
ReplyNeedsOriginalNever(a) == FALSE

\* args.isReply && !args.originalMessageId
ReplyNeedsOriginal(a) == a.isReply /\ ~TruthyId(a.originalMessageId)

\* A faulty attachment step whose failure goes unnoticed (sensitivity of C17).
AttachFailedNever(steps) == FALSE

\* theDraft.attachments.push(...) threw
AttachFailed(steps) == Step(steps, 2) # "ok"

\* const maxRetries = 3
maxRetries == 3

\* What the i-th theDraft.content() of the reply path does: "text" (content
\* that is not only whitespace), "blank" (nothing or whitespace) or "throw".
\* scripts[3], scripts[4], ... are the reads; a read the bridge was not
\* scripted for yields the quoted text.
ReadOutcome(steps, i) == IF 2 + i <= Len(steps) THEN steps[2 + i] ELSE "text"

\* A faulty loop that never leaves early (sensitivity of C21).
GotContentNever(steps, i) == FALSE

\* existingContent.trim() !== "" after the i-th read: the break.  A read that
\* throws leaves existingContent as it was, which was blank (else the loop had
\* been left).
GotContent(steps, i) == ReadOutcome(steps, i) = "text"

\* The number of reads the loop makes.
Attempts(steps) ==
    IF \E i \in 1..maxRetries : GotContent(steps, i)
    THEN CHOOSE i \in 1..maxRetries :
            GotContent(steps, i) /\ \A j \in 1..(i - 1) : ~GotContent(steps, j)
    ELSE maxRetries

\* The loop of the reply path and the assignment of theDraft.content that
\* follows it, as bridge calls: a read per attempt, delay(retryDelay) after an
\* attempt that is not the last and did not leave the loop, then the content,
\* the caller's body followed by what was read.
RetryLoop(steps) ==
    LET n == Attempts(steps)
        attempt(i) ==
            << Invocation("readContent", "", "", 0) >> \o
            (IF ~GotContent(steps, i) /\ i < maxRetries
             THEN << Invocation("delay", "", "", 0) >> ELSE <<>>)
    IN  Flat([i \in 1..n |-> attempt(i)]) \o
        << Invocation(IF GotContent(steps, n) THEN "setContentBodyAndQuote"
                      ELSE "setContentBodyOnly", "", "", 0) >>

\* A faulty script that never misses the original (sensitivity of C28).
OriginalMissingNever(a, at) == FALSE

\* !foundMessage on the reply path
OriginalMissing(a, at) == a.isReply /\ at = <<>>

DraftResult(success, draftId, error) ==
    [status |-> "returned", isError |-> ~success, success |-> success,
     draftId |-> draftId, error |-> error]

\* The script of createDraftEmail: [result, store, log].  scripts[1] is the
\* run() of the script ("reject" when it rejects), scripts[2] the attachment,
\* the rest the reads of the reply path.
DraftScript(st, a, steps) ==
    LET activate == Invocation("activate", "", "", 0)
        original == IF TruthyId(a.originalMessageId) THEN a.originalMessageId[1] ELSE 0
        at == Locate(st, original, FALSE)
        create == IF a.isReply
                  THEN Invocation("reply", IF at = <<>> THEN "" ELSE at[1].account,
                                  IF at = <<>> THEN "" ELSE at[1].mailbox, original)
                  ELSE Invocation("make", "", "", 0)
        attach == Invocation("attach", "", "", 0)
        drafted == [st EXCEPT !.drafts = @ + 1]
        compose == IF a.isReply THEN <<create>> \o RetryLoop(steps) ELSE <<create>>
    IN  IF a.isReply /\ ~TruthyId(a.originalMessageId)
        THEN [result |-> DraftResult(FALSE, None, "OriginalRequired"),
              store |-> st, log |-> <<activate>>]
        ELSE IF OriginalMissing(a, at)
        THEN [result |-> DraftResult(FALSE, None, "OriginalNotFound"),
              store |-> st, log |-> <<activate>>]
        ELSE IF a.attachmentPath = ""
        THEN [result |-> DraftResult(TRUE, Some(drafted.drafts), "none"),
              store |-> drafted, log |-> <<activate>> \o compose]
        ELSE IF AttachFailed(steps)
        THEN [result |-> DraftResult(FALSE, None, "AttachmentError"),
              store |-> drafted, log |-> <<activate>> \o compose \o <<attach>>]
        ELSE [result |-> DraftResult(TRUE, Some(drafted.drafts), "none"),
              store |-> drafted, log |-> <<activate>> \o compose \o <<attach>>]

\* createDraftEmail: [result, store, log].
createDraftEmail(st, a, e) ==
    IF ~e.access
    THEN [result |-> DraftResult(FALSE, None, "AccessFailed"), store |-> st,
          log |-> << Invocation("checkMailAccess", "", "", 0) >>]
    ELSE IF Step(e.scripts, 1) = "reject"
    THEN [result |-> DraftResult(FALSE, None, "ScriptRejected"), store |-> st,
          log |-> << Invocation("checkMailAccess", "", "", 0) >>]
    ELSE LET script == DraftScript(st, a, e.scripts)
         IN  [result |-> script.result, store |-> script.store,
              log |-> << Invocation("checkMailAccess", "", "", 0) >> \o script.log]

\* The createDraft case of the tool handler: [result, store, log].
createDraft(st, a, e) ==
    IF ~isCreateDraftArgs(a)
    THEN [result |-> [status |-> "invalid", isError |-> TRUE, success |-> FALSE,
                      draftId |-> None, error |-> "InvalidArguments"],
          store |-> st, log |-> <<>>]
    ELSE IF ReplyNeedsOriginal(a)
    THEN [result |-> [status |-> "threw", isError |-> TRUE, success |-> FALSE,
                      draftId |-> None, error |-> "ValidationFailed"],
          store |-> st, log |-> <<>>]
    ELSE createDraftEmail(st, a, e)

-----------------------------------------------------------------------------
\* Process start (src/index.ts)

\* The module-level state after the top-level code ran: the timer is armed,
\* the import of attemptEagerLoading is pending, initServer was not called.
\* `first` is the event that called initServer first, `servers` the number of
\* calls of initServer (each creates a Server and a StdioServerTransport).
ProcessStart ==
    [timer |-> "armed", load |-> "pending", mail |-> FALSE,
     useEagerLoading |-> TRUE, safeModeFallback |-> FALSE,
     servers |-> 0, first |-> "none", mode |-> "none"]

\* A faulty initServer that does nothing (sensitivity of C23).
initServerSkipped(b, event) == b

\* initServer(): a new Server in the mode of safeModeFallback and a new
\* transport; `event` is the caller.
initServer(b, event) ==
    [b EXCEPT !.servers = @ + 1,
              !.first = IF @ = "none" THEN event ELSE @,
              !.mode = IF b.safeModeFallback THEN "safe" ELSE "standard"]

\* The callback of loadingTimeout.
TimeoutCallback(b) ==
    initServer([b EXCEPT !.timer = "fired", !.useEagerLoading = FALSE,
                         !.safeModeFallback = TRUE, !.mail = FALSE], "timeout")

\* clearTimeout(loadingTimeout) when loadingTimeout is set; a timer that has
\* fired stays fired.
ClearTimer(b) == [b EXCEPT !.timer = IF @ = "armed" THEN "cleared" ELSE @]

\* attemptEagerLoading after the import resolved.
EagerLoaded(b) ==
    initServer([ClearTimer(b) EXCEPT !.load = "loaded", !.mail = TRUE], "loaded")

\* attemptEagerLoading after the import rejected: the catch block.
EagerFailed(b) ==
    initServer([ClearTimer(b) EXCEPT !.load = "failed", !.useEagerLoading = FALSE,
                                     !.safeModeFallback = TRUE, !.mail = FALSE], "failed")

\* The process whose eager load completed before the timer fired.
StandardStart == EagerLoaded(ProcessStart)

-----------------------------------------------------------------------------
\* Inputs

\* What the bridge did during a call: did checkMailAccess pass, did the
\* directory query succeed, how many local mailboxes did it enumerate, and how
\* did each of the call's parallel (or its single) script runs end.
Env(access, directory, local, scripts) ==
    [access |-> access, directory |-> directory, local |-> local, scripts |-> scripts]

\* The calls in which the bridge is unreachable or the directory query fails.
OutageEnvs(st) ==
    { Env(FALSE, "ok", 0, <<>>), Env(TRUE, "fail", 0, <<>>) }

\* What the bridge can do during one listEmails call.
ListEnvs(st, a) ==
    OutageEnvs(st) \cup
    UNION { LET n == Len(Resolve(st, a, l).mailboxes)
            IN  {Env(TRUE, "ok", l, f) : f \in [1..n -> FetchOutcomes]}
            : l \in 0..Len(st.localMailboxes) }

\* What the bridge can do during one listMailboxes call.
DirectoryEnvs(st) ==
    OutageEnvs(st) \cup {Env(TRUE, "ok", l, <<>>) : l \in 0..Len(st.localMailboxes)}

Limits == {NoLimit} \cup {NumLimit(n) : n \in 0..MaxLimit}
Filters == {None, Some(TRUE), Some(FALSE)}

ListEmailsArgs ==
    [searchTerm : {"", "q"}, limit : Limits,
     accountName : {"", "Work", "Home", "Ghost"},
     mailboxName : {"", "inbox", "INBOX", "Saved"},
     isRead : Filters, isFlagged : {None, Some(TRUE)}]
    \cup
    { [searchTerm |-> "", limit |-> StringLimit, accountName |-> "",
       mailboxName |-> "", isRead |-> None, isFlagged |-> None] }

\* the message ids a request names: 1 and 2 are in stores, 4 is in none
RequestIds == {1, 2, 4}

ReadRequests ==
    {ReadRequest(id, "", "") : id \in RequestIds} \cup {ReadRequest(1, "Home", "Inbox")}

\* the request lists of readEmails, the empty (rejected) one included
ReadRequestLists == UNION {[1..n -> ReadRequests] : n \in 0..MaxRequests}

\* What the bridge can do during one readEmails call.
ReadEnvs(reqs) ==
    { Env(FALSE, "ok", 0, <<>>) } \cup
    { Env(TRUE, "ok", 0, f) : f \in [1..Len(UniqueRequests(reqs, {})) -> {"ok", "reject"}] }

TransferRequests ==
    [messageId : RequestIds,
     targetAccountName : {"Work", "Home", "On My Mac", "Ghost"},
     targetMailboxName : {"Saved", "Trash", "inbox"}]

\* What the bridge can do during one moveEmails or copyEmails call.
TransferEnvs(st, req) ==
    OutageEnvs(st) \cup
    UNION { IF ValidateTarget(listMailboxesScript(st, l), req).kind # "none"
            THEN {Env(TRUE, "ok", l, <<>>)}
            ELSE {Env(TRUE, "ok", l, <<o>>) : o \in MutateOutcomes} \cup
                 {Env(TRUE, "ok", l, <<"ok", x>>) : x \in {"targetRemoved", "messageTaken"}}
            : l \in 0..Len(st.localMailboxes) }

ArchiveRequests == [messageId : RequestIds]

\* What the bridge can do during one archiveEmails call.
ArchiveEnvs ==
    { Env(FALSE, "ok", 0, <<>>) } \cup { Env(TRUE, "ok", 0, s) : s \in ArchiveOutcomes }

TrashRequests == [messageId : RequestIds]

\* What the bridge can do during one trashEmails call.
TrashEnvs ==
    { Env(FALSE, "ok", 0, <<>>) } \cup { Env(TRUE, "ok", 0, <<o>>) : o \in MutateOutcomes }

\* What the reads of the quoted content can do, one outcome per attempt.
ContentReads == { <<r1, r2, r3>> : r1, r2, r3 \in {"text", "blank", "throw"} }

CreateDraftArgs ==
    [isReply : BOOLEAN, originalMessageId : {None, Some(0), Some(1), Some(4)},
     toAddress : {"", "a@b"}, attachmentPath : {"", "/f"}]

\* What the bridge can do during one createDraft call.
CreateDraftEnvs(a) ==
    IF ~isCreateDraftArgs(a) \/ (a.isReply /\ ~TruthyId(a.originalMessageId))
    THEN { Env(TRUE, "ok", 0, <<>>) }
    ELSE { Env(FALSE, "ok", 0, <<>>), Env(TRUE, "ok", 0, <<"reject">>) } \cup
         (IF a.isReply THEN {}
          ELSE IF a.attachmentPath = "" THEN { Env(TRUE, "ok", 0, <<"ok">>) }
          ELSE { Env(TRUE, "ok", 0, <<"ok", "ok">>), Env(TRUE, "ok", 0, <<"ok", "fail">>) }) \cup
         (IF ~a.isReply THEN {}
          ELSE { Env(TRUE, "ok", 0, <<"ok", att>> \o reads) :
                    att \in (IF a.attachmentPath = "" THEN {"ok"} ELSE {"ok", "fail"}),
                    reads \in ContentReads })

-----------------------------------------------------------------------------
\* The state machine

NoArgs == [none |-> TRUE]
NoResult == [status |-> "none", emails |-> <<>>, error |-> NoError]

Init ==
    /\ store \in Stores
    /\ op = "idle"
    /\ args = NoArgs
    /\ env = Env(TRUE, "ok", 0, <<>>)
    /\ bridgeLog = <<>>
    /\ result = NoResult
    /\ previous = None
    /\ boot = ProcessStart

\* The server takes a request when it is idle.  The model follows the store
\* through one successful mutation: it takes no request after one.  It follows
\* the tool calls of a process that started in standard mode (the handlers do
\* not depend on the mode: loadModule imports the module when it is missing).
Accepting == op = "idle" /\ store \in Stores /\ boot = StandardStart

\* The loading timer fires (setTimeout, 5000 ms).
LoadingTimeout ==
    /\ boot.timer = "armed"
    /\ boot' = TimeoutCallback(boot)
    /\ UNCHANGED <<store, op, args, env, bridgeLog, result, previous>>

\* The import of attemptEagerLoading resolves.
EagerLoadCompletes ==
    /\ boot.load = "pending"
    /\ boot' = EagerLoaded(boot)
    /\ UNCHANGED <<store, op, args, env, bridgeLog, result, previous>>

\* The import of attemptEagerLoading rejects.
EagerLoadFails ==
    /\ boot.load = "pending"
    /\ boot' = EagerFailed(boot)
    /\ UNCHANGED <<store, op, args, env, bridgeLog, result, previous>>

\* CallTool "listEmails": the argument check, then listEmails.
ListEmails ==
    /\ Accepting
    /\ \E a \in ListEmailsArgs :
        /\ op' = "listEmails"
        /\ args' = a
        /\ IF ~isListEmailsArgs(a)
           THEN /\ env' = Env(TRUE, "ok", 0, <<>>)
                /\ bridgeLog' = <<>>
                /\ result' = [status |-> "invalid", emails |-> <<>>, error |-> NoError]
           ELSE \E e \in ListEnvs(store, a) :
                 \E order \in Orders(Len(e.scripts)) :
                   LET r == listEmails(store, a, e, order)
                   IN  /\ env' = e
                       /\ bridgeLog' = r.log
                       /\ result' = r.result
        /\ UNCHANGED store
        /\ previous' = None
        /\ UNCHANGED boot

\* CallTool "readEmails": the argument check, then readEmails.
ReadEmails ==
    /\ Accepting
    /\ \E reqs \in ReadRequestLists :
        /\ op' = "readEmails"
        /\ args' = [readRequests |-> reqs]
        /\ IF ~isReadEmailsArgs(reqs)
           THEN /\ env' = Env(TRUE, "ok", 0, <<>>)
                /\ bridgeLog' = <<>>
                /\ result' = [status |-> "invalid", items |-> <<>>, isError |-> TRUE]
           ELSE \E e \in ReadEnvs(reqs) :
                 \E order \in Orders(Len(e.scripts)) :
                   LET r == readEmails(store, reqs, e, order)
                   IN  /\ env' = e
                       /\ bridgeLog' = r.log
                       /\ result' = readEmailsResponse(r.result.items)
        /\ UNCHANGED store
        /\ previous' = None
        /\ UNCHANGED boot

\* CallTool "move": moveEmails.
MoveEmails ==
    /\ Accepting
    /\ \E req \in TransferRequests :
      \E e \in TransferEnvs(store, req) :
        LET r == moveEmails(store, req, e)
        IN  /\ op' = "moveEmails"
            /\ args' = req
            /\ env' = e
            /\ bridgeLog' = r.log
            /\ result' = r.result
            /\ store' = r.store
            /\ previous' = None
            /\ UNCHANGED boot

\* CallTool "copy": copyEmails.
CopyEmails ==
    /\ Accepting
    /\ \E req \in TransferRequests :
      \E e \in TransferEnvs(store, req) :
        LET r == copyEmails(store, req, e)
        IN  /\ op' = "copyEmails"
            /\ args' = req
            /\ env' = e
            /\ bridgeLog' = r.log
            /\ result' = r.result
            /\ store' = r.store
            /\ previous' = None
            /\ UNCHANGED boot

\* CallTool "archive": archiveEmails.
ArchiveEmails ==
    /\ Accepting
    /\ \E req \in ArchiveRequests :
      \E e \in ArchiveEnvs :
        LET r == archiveEmails(store, req, e)
        IN  /\ op' = "archiveEmails"
            /\ args' = req
            /\ env' = e
            /\ bridgeLog' = r.log
            /\ result' = r.result
            /\ store' = r.store
    /\ previous' = None
    /\ UNCHANGED boot

\* CallTool "trash": trashEmails.
TrashEmails ==
    /\ Accepting
    /\ \E req \in TrashRequests :
      \E e \in TrashEnvs :
        LET r == trashEmails(store, req, e)
        IN  /\ op' = "trashEmails"
            /\ args' = req
            /\ env' = e
            /\ bridgeLog' = r.log
            /\ result' = r.result
            /\ store' = r.store
    /\ previous' = None
    /\ UNCHANGED boot

\* CallTool "createDraft": the argument checks, then createDraftEmail.
CreateDraft ==
    /\ Accepting
    /\ \E a \in CreateDraftArgs :
      \E e \in CreateDraftEnvs(a) :
        LET r == createDraft(store, a, e)
        IN  /\ op' = "createDraft"
            /\ args' = a
            /\ env' = e
            /\ bridgeLog' = r.log
            /\ result' = r.result
            /\ store' = r.store
    /\ previous' = None
    /\ UNCHANGED boot

\* CallTool "listMailboxes": listMailboxes.
ListMailboxes ==
    /\ Accepting
    /\ \E e \in DirectoryEnvs(store) :
        LET r == listMailboxes(store, e)
        IN  /\ op' = "listMailboxes"
            /\ args' = NoArgs
            /\ env' = e
            /\ bridgeLog' = r.log
            /\ result' = r.result
    /\ UNCHANGED <<store, previous, boot>>

\* The handler has sent its response; the server waits for the next request.
Respond ==
    /\ op # "idle"
    /\ op' = "idle"
    /\ args' = NoArgs
    /\ env' = Env(TRUE, "ok", 0, <<>>)
    /\ bridgeLog' = <<>>
    /\ result' = NoResult
    /\ previous' = IF op = "listMailboxes" /\ result.status = "returned"
                   THEN Some(result.mailboxes) ELSE None
    /\ UNCHANGED <<store, boot>>

Next ==
    \/ ListEmails \/ ReadEmails \/ MoveEmails \/ CopyEmails
    \/ ListMailboxes \/ ArchiveEmails \/ TrashEmails \/ CreateDraft
    \/ LoadingTimeout \/ EagerLoadCompletes \/ EagerLoadFails
    \/ Respond

Spec == Init /\ [][Next]_vars

\* The event loop runs a timer that is due: the loading timer, once armed and
\* not cleared, fires.  Nothing makes the import settle.
LiveSpec == Init /\ [][Next]_vars /\ WF_vars(LoadingTimeout)

-----------------------------------------------------------------------------
\* Vocabulary of the properties

\* listEmails ran to its end and returned a list
ListReturned == op = "listEmails" /\ result.status = "returned"

\* the listEmails call got its directory from listMailboxes
ListResolved == op = "listEmails" /\ result.status # "invalid"
                    /\ env.access /\ env.directory = "ok"

\* the directory the call worked with
Directory == listMailboxesScript(store, env.local)

\* the names that equal "inbox" when case is ignored
InboxNames == {"inbox", "Inbox", "INBOX"}

\* two mailbox names of the model are equal when case is ignored
SameNameIgnoringCase(x, y) == x = y \/ (x \in InboxNames /\ y \in InboxNames)

\* the (account, mailbox) pairs of the fetch scripts the call ran
Fetches == SelectSeq(bridgeLog, LAMBDA c : c.prim = "fetch")
FetchedPairs == {<<Fetches[k].account, Fetches[k].mailbox>> : k \in 1..Len(Fetches)}

\* the message ids the k-th fetch script delivered
DeliveredIds(k) ==
    LET got == getEmailsFromMailboxJXA(store, Fetches[k].account, Fetches[k].mailbox,
                                       env.scripts[k])
    IN  {got[i].messageId : i \in 1..Len(got)}

ResultIds == {result.emails[i].messageId : i \in 1..Len(result.emails)}

\* the directory mailboxes that the resolution policy of the request selects:
\* the named pair; the named account's inbox; every mailbox of the given name;
\* every inbox
Matching ==
    {k \in 1..Len(Directory) :
        IF args.accountName # "" /\ args.mailboxName # ""
        THEN Directory[k].account = args.accountName
             /\ Directory[k].mailbox = args.mailboxName
        ELSE IF args.accountName # ""
        THEN Directory[k].account = args.accountName
             /\ Directory[k].mailbox \in InboxNames
        ELSE IF args.mailboxName # ""
        THEN SameNameIgnoringCase(Directory[k].mailbox, args.mailboxName)
        ELSE Directory[k].mailbox \in InboxNames}

\* the primitives the call invoked, in order
Prims == [k \in 1..Len(bridgeLog) |-> bridgeLog[k].prim]

\* the message ids now held by the mailboxes of that name of that account
HeldIn(account, mailbox) ==
    UNION { UNION { {store.accounts[i].mailboxes[k].messages[n].messageId :
                        n \in 1..Len(store.accounts[i].mailboxes[k].messages)} :
                    k \in {j \in 1..Len(store.accounts[i].mailboxes) :
                              store.accounts[i].mailboxes[j].name = mailbox} } :
            i \in {j \in 1..Len(store.accounts) : store.accounts[j].name = account} }

-----------------------------------------------------------------------------
\* Properties of listEmails

\* C2: for every accepted limit L >= 0, L = 0 included, listEmails returns at
\* most L messages.  The code skips the truncation when the limit is 0.
C2_AtMostLimit ==
    (ListReturned /\ args.limit.type = "number" /\ args.limit.value >= 0)
        => Len(result.emails) <= args.limit.value

\* C3: for every combination of searchTerm, filters and limit the returned
\* sequence is in non-increasing date-received order.  With a search term the
\* code returns Fuse's relevance order.
C3_NewestFirst ==
    ListReturned =>
        \A i, j \in 1..Len(result.emails) :
            i < j => DateKey(result.emails[i]) >= DateKey(result.emails[j])

\* C4: without a limit the result is truncated to the default of 25 messages.
\* The code applies no default.
C4_DefaultLimit ==
    (ListReturned /\ args.limit.type = "undefined")
        => Len(result.emails) <= DefaultLimit

\* C5: a listEmails result never holds two messages with the same messageId,
\* and the one it holds of a messageId is the copy delivered by the first
\* fetched mailbox, in resolution order, that delivered the messageId.
C5_NoDuplicateMessageIds ==
    ListReturned =>
        /\ \A i, j \in 1..Len(result.emails) :
              result.emails[i].messageId = result.emails[j].messageId => i = j
        /\ \A i \in 1..Len(result.emails) :
              \E k \in 1..Len(Fetches) :
                  /\ Fetches[k].account = result.emails[i].account
                  /\ Fetches[k].mailbox = result.emails[i].mailbox
                  /\ result.emails[i].messageId \in DeliveredIds(k)
                  /\ \A j \in 1..(k - 1) : result.emails[i].messageId \notin DeliveredIds(j)

\* C5's case: a returned message was delivered by two of the fetched mailboxes.
C5_Witness ==
    /\ ListReturned
    /\ \E j, k \in 1..Len(Fetches) :
          j < k /\ (DeliveredIds(j) \cap DeliveredIds(k) \cap ResultIds) # {}

\* C7 as stated: with accountName and no mailboxName listEmails fetches exactly
\* one mailbox, a mailbox of that account named "inbox" up to case; when the
\* account has no such mailbox the call fails with the no-inbox error naming
\* the account.  For an account that is not in the directory the code fails
\* with the account-not-found error instead.
C7_AccountOnlyInboxOrNoInboxError ==
    (ListResolved /\ args.accountName # "" /\ args.mailboxName = "") =>
        IF Matching = {}
        THEN /\ result.status = "threw"
             /\ result.error.kind = "NoInboxFound"
             /\ result.error.account = args.accountName
             /\ Fetches = <<>>
        ELSE /\ Len(Fetches) = 1
             /\ Fetches[1].account = args.accountName
             /\ \E k \in Matching : Directory[k].mailbox = Fetches[1].mailbox

\* C7 amended: with accountName and no mailboxName, for an account of the
\* directory, listEmails fetches exactly one mailbox, a directory mailbox of
\* that account named "inbox" up to case; when the account has none the call
\* fails with the no-inbox error naming the account; an account that is not in
\* the directory fails with the account-not-found error naming it.
C7_AccountOnlyFetchesItsInbox ==
    (ListResolved /\ args.accountName # "" /\ args.mailboxName = "") =>
        IF \A k \in 1..Len(Directory) : Directory[k].account # args.accountName
        THEN /\ result.status = "threw"
             /\ result.error.kind = "AccountNotFound"
             /\ result.error.account = args.accountName
             /\ Fetches = <<>>
        ELSE IF Matching = {}
        THEN /\ result.status = "threw"
             /\ result.error.kind = "NoInboxFound"
             /\ result.error.account = args.accountName
             /\ Fetches = <<>>
        ELSE /\ Len(Fetches) = 1
             /\ Fetches[1].account = args.accountName
             /\ \E k \in Matching : Directory[k].mailbox = Fetches[1].mailbox

\* C7's case: the account's inbox is spelled "INBOX"; it is the one mailbox
\* fetched and its messages are returned.
C7_Witness ==
    /\ ListResolved /\ args.accountName = "Work" /\ args.mailboxName = ""
    /\ Len(Fetches) = 1 /\ Fetches[1].mailbox = "INBOX"
    /\ result.status = "returned" /\ Len(result.emails) > 0

\* C8: with mailboxName and no accountName listEmails fetches every directory
\* mailbox whose name equals mailboxName case-insensitively.  The code first
\* requires a mailbox of exactly that name.
C8_MailboxOnlyFetchesAllMatches ==
    (ListResolved /\ args.accountName = "" /\ args.mailboxName # "") =>
        FetchedPairs = {<<Directory[k].account, Directory[k].mailbox>> : k \in Matching}

\* C9 as stated: whenever the resolution finds no matching mailbox, listEmails
\* returns an empty sequence and never an error.
C9_NoMatchReturnsEmpty ==
    (ListResolved /\ Matching = {}) => (result.status = "returned" /\ result.emails = <<>>)

\* C9 amended: when neither accountName nor mailboxName is given and no
\* directory mailbox is an inbox, listEmails returns an empty sequence without
\* fetching; when a given accountName or mailboxName matches no mailbox the
\* call fails with the account-not-found, mailbox-not-found or no-inbox error.
C9_NoMatchEmptyOnlyWithoutNames ==
    (ListResolved /\ Matching = {}) =>
        IF args.accountName = "" /\ args.mailboxName = ""
        THEN result.status = "returned" /\ result.emails = <<>> /\ Fetches = <<>>
        ELSE /\ result.status = "threw"
             /\ result.error.kind \in {"AccountNotFound", "MailboxNotFound", "NoInboxFound"}
             /\ Fetches = <<>>

\* C9's case: no names given, no inbox in the directory, an empty list returned.
C9_Witness ==
    /\ ListResolved /\ Matching = {} /\ Len(Directory) > 0
    /\ args.accountName = "" /\ args.mailboxName = ""
    /\ result.status = "returned" /\ result.emails = <<>>

\* C10: when the bridge call for one of the fetched mailboxes fails, the call
\* still returns, with the messages the other mailboxes delivered.  The code
\* isolates an exception inside the script, not a rejected run().
C10_FetchFailureIsolated ==
    (ListResolved /\ Len(Fetches) > 0
        /\ \E k \in 1..Len(Fetches) : env.scripts[k] # "ok") =>
            /\ result.status = "returned"
            /\ (args.searchTerm = "" /\ args.isRead = None /\ args.isFlagged = None
                /\ ~Truthy(args.limit))
                  => ResultIds = UNION {DeliveredIds(k) :
                                          k \in {j \in 1..Len(Fetches) : env.scripts[j] = "ok"}}

-----------------------------------------------------------------------------
\* Properties of readEmails

\* C1: for a request list of length N, repeated messageIds included, the
\* list readEmails returns has length N and item i carries the messageId of
\* request i.  The code returns one item per distinct messageId.
C1_OneResultPerRequest ==
    (op = "readEmails" /\ result.status = "returned") =>
        /\ Len(result.items) = Len(args.readRequests)
        /\ \A i \in 1..Len(result.items) :
              result.items[i].messageId = args.readRequests[i].messageId

\* readEmails got past the access check and returned
ReadRan == op = "readEmails" /\ result.status = "returned" /\ env.access

\* the message ids of the lookup scripts the call ran, in issue order
Lookups ==
    LET ran == SelectSeq(bridgeLog, LAMBDA c : c.prim = "lookup")
    IN  [k \in 1..Len(ran) |-> ran[k].messageId]

RequestedIds == {args.readRequests[i].messageId : i \in 1..Len(args.readRequests)}

C19_HintedMailboxProbedFirst ==
    (ReadRan /\ \A k \in 1..Len(env.scripts) : env.scripts[k] = "ok") =>
        \A i \in 1..Len(result.items) :
            LET r == UniqueRequests(args.readRequests, {})[i]
            IN  (/\ r.account # "" /\ r.mailbox # ""
                 /\ \E a \in 1..Len(store.accounts) :
                        store.accounts[a].name = r.account /\ store.accounts[a].enabled
                 /\ r.messageId \in HeldIn(r.account, r.mailbox)) =>
                    /\ result.items[i].success
                    /\ result.items[i].account = r.account
                    /\ result.items[i].mailbox = r.mailbox

\* C20: the response of a readEmails batch is flagged as failed only when no
\* item succeeded.  The handler flags it when any item failed.
C20_ErrorOnlyWhenAllFailed ==
    (op = "readEmails" /\ result.status = "returned") =>
        (result.isError <=> \A i \in 1..Len(result.items) : ~result.items[i].success)

-----------------------------------------------------------------------------
\* Properties of moveEmails and copyEmails

\* the call is a move or copy that got its directory from listMailboxes, and
\* no concurrent actor changed the mailboxes under it (the store still has
\* the directory the call worked with)
TransferResolved ==
    /\ op \in {"moveEmails", "copyEmails"} /\ env.access /\ env.directory = "ok"
    /\ Interference(env.scripts) = "none"

\* the target pair of the request is a mailbox of the directory
TargetInDirectory ==
    \E k \in 1..Len(Directory) :
        /\ Directory[k].account = args.targetAccountName
        /\ Directory[k].mailbox = args.targetMailboxName

\* the names of the directory mailboxes of the target account
TargetAccountMailboxes ==
    {Directory[k].mailbox : k \in {j \in 1..Len(Directory) :
                                      Directory[j].account = args.targetAccountName}}

\* C6: when the pair targetAccountName/targetMailboxName is not in the
\* directory of the call, moveEmails and copyEmails report success = false
\* with an error that lists exactly the directory mailboxes of the target
\* account (when it has none, the error is the account-not-found one, listing
\* the accounts), and neither move nor duplicate is invoked.
C6_UnknownTargetShortCircuits ==
    (TransferResolved /\ ~TargetInDirectory) =>
        /\ result.success = FALSE
        /\ result.item.success = FALSE
        /\ result.item.error.account = args.targetAccountName
        /\ IF TargetAccountMailboxes # {}
           THEN /\ result.item.error.kind = "MailboxNotFound"
                /\ Range(result.item.error.listed) = TargetAccountMailboxes
           ELSE /\ result.item.error.kind = "AccountNotFound"
                /\ Range(result.item.error.listed)
                      = {Directory[k].account : k \in 1..Len(Directory)}
        /\ \A k \in 1..Len(bridgeLog) : bridgeLog[k].prim \notin {"move", "duplicate"}

\* C6's case: a move of a message that exists, to a mailbox that an existing
\* account lacks, is refused with that account's mailboxes listed.
C6_Witness ==
    /\ TransferResolved /\ ~TargetInDirectory
    /\ Locate(store, args.messageId, FALSE) # <<>>
    /\ result.item.error.kind = "MailboxNotFound"
    /\ Len(result.item.error.listed) > 0
    /\ result.success = FALSE

-----------------------------------------------------------------------------
\* Properties of listMailboxes

\* listMailboxes ran to its end and returned a directory
DirectoryReturned == op = "listMailboxes" /\ result.status = "returned"

\* the (account, mailbox) pairs of the returned directory
ReturnedPairs ==
    {<<result.mailboxes[k].account, result.mailboxes[k].mailbox>> :
        k \in 1..Len(result.mailboxes)}

\* the pairs of the mailboxes of the accounts (of the enabled ones only when
\* `enabledOnly`)
AccountPairs(enabledOnly) ==
    UNION { {<<store.accounts[i].name, store.accounts[i].mailboxes[k].name>> :
                k \in 1..Len(store.accounts[i].mailboxes)} :
            i \in {j \in 1..Len(store.accounts) :
                        enabledOnly => store.accounts[j].enabled} }

\* the pairs of the local mailboxes
LocalPairs ==
    {<<LocalAccountName, store.localMailboxes[k].name>> : k \in 1..Len(store.localMailboxes)}

\* C11: the directory returned by listMailboxes never holds two entries with
\* the same (account, mailbox) pair, also when a local mailbox and an account
\* mailbox are reported under the same pair.
C11_NoDuplicatePairs ==
    DirectoryReturned =>
        \A i, j \in 1..Len(result.mailboxes) :
            (/\ result.mailboxes[i].account = result.mailboxes[j].account
             /\ result.mailboxes[i].mailbox = result.mailboxes[j].mailbox) => i = j

\* C11's case: the account enumeration and the complete local enumeration both
\* report the same pair, and the directory is returned.
C11_Witness ==
    /\ DirectoryReturned
    /\ env.local = Len(store.localMailboxes)
    /\ (AccountPairs(FALSE) \cap LocalPairs) # {}
    /\ (AccountPairs(FALSE) \cap LocalPairs) \subseteq ReturnedPairs

\* C12: listMailboxes returns the mailboxes of every enabled account plus the
\* local mailboxes, and nothing else (checked for calls whose local enumeration
\* completed).  The code enumerates disabled accounts too.
C12_EnabledAccountsAndLocalOnly ==
    (DirectoryReturned /\ env.local = Len(store.localMailboxes)) =>
        ReturnedPairs = AccountPairs(TRUE) \cup LocalPairs

\* C13: a directory that listMailboxes returns is the full set of visible
\* mailboxes, never a proper subset.  The code swallows a failure of the local
\* enumeration and returns what it has.
C13_FullDirectoryOrError ==
    DirectoryReturned =>
        ReturnedPairs = AccountPairs(FALSE) \cup LocalPairs

\* C14: two listMailboxes calls with no mutation of the store between them
\* return the same set of (account, mailbox) pairs.  A local enumeration that
\* fails in one of the calls makes the sets differ.
C14_SameDirectoryTwice ==
    (DirectoryReturned /\ previous # None) =>
        ReturnedPairs = {<<previous[1][k].account, previous[1][k].mailbox>> :
                            k \in 1..Len(previous[1])}

-----------------------------------------------------------------------------
\* Properties of archiveEmails

\* the archive script ran (Mail reachable, run() did not reject)
ArchiveRan == op = "archiveEmails" /\ env.access /\ Step(env.scripts, 1) # "reject"

\* C15: archiveEmails invokes the native archive primitive first; it moves the
\* message only when that primitive failed, first to the Trash of the
\* message's account and, after finding it there, from Trash to Archive; when
\* the message is not found in Trash after the first move the item is reported
\* failed, no move to Archive is issued and the message is in Trash.
C15_ArchiveFallbackOrder ==
    (ArchiveRan /\ bridgeLog # <<>>) =>
        /\ Prims[1] = "archive"
        /\ Step(env.scripts, 1) = "ok" =>
              /\ Prims = <<"archive">>
              /\ result.success /\ result.item.success
              /\ args.messageId \in HeldIn(bridgeLog[1].account, "Archive")
        /\ Step(env.scripts, 1) # "ok" =>
              /\ Len(Prims) >= 2
              /\ \E m \in 2..4 : Prims = SubSeq(<<"archive", "move", "findInTrash", "move">>, 1, m)
              /\ bridgeLog[2].account = bridgeLog[1].account /\ bridgeLog[2].mailbox = "Trash"
              /\ Len(Prims) = 4 =>
                    bridgeLog[4].account = bridgeLog[1].account /\ bridgeLog[4].mailbox = "Archive"
              /\ result.success =>
                    /\ Len(Prims) = 4
                    /\ args.messageId \in HeldIn(bridgeLog[1].account, "Archive")
              /\ (Len(Prims) >= 3 /\ Step(env.scripts, 3) # "ok") =>
                    /\ result.success = FALSE /\ result.item.success = FALSE
                    /\ Len(Prims) = 3
                    /\ args.messageId \in HeldIn(bridgeLog[1].account, "Trash")
                    /\ args.messageId \notin HeldIn(bridgeLog[1].account, "Archive")

\* C15's case: the native primitive failed, the message went to Trash, the
\* lookup in Trash did not find it, and the item is reported failed.
C15_Witness ==
    /\ ArchiveRan /\ env.scripts = <<"fail", "ok", "fail">>
    /\ Prims = <<"archive", "move", "findInTrash">>
    /\ result.success = FALSE
    /\ args.messageId \in HeldIn(bridgeLog[1].account, "Trash")

-----------------------------------------------------------------------------
\* Properties of createDraft

\* C16: a createDraft call with isReply = true and originalMessageId absent or
\* empty fails with a validation error before any bridge call: the call
\* invokes nothing, not even the access check, and creates no draft.
C16_ReplyWithoutOriginalFailsFast ==
    (op = "createDraft" /\ args.isReply /\ ~TruthyId(args.originalMessageId)) =>
        /\ result.isError /\ ~result.success
        /\ result.error \in {"InvalidArguments", "ValidationFailed"}
        /\ bridgeLog = <<>>
        /\ store.drafts = 0

\* C16's case: a reply whose originalMessageId is the empty string passes the
\* type check and is refused by the handler.
C16_Witness ==
    /\ op = "createDraft" /\ args.isReply /\ args.originalMessageId = Some(0)
    /\ result.error = "ValidationFailed" /\ result.isError
    /\ bridgeLog = <<>>

\* C17: when an attachmentPath is given and attaching fails, createDraftEmail
\* reports success = false with the attachment error and no draftId, on the
\* new-message and on the reply path, although the draft was created.
C17_AttachmentFailureFailsDraft ==
    (op = "createDraft" /\ Len(env.scripts) >= 2
        /\ env.scripts[1] = "ok" /\ env.scripts[2] = "fail"
        /\ \E k \in 1..Len(bridgeLog) : bridgeLog[k].prim = "attach") =>
            /\ ~result.success /\ result.isError
            /\ result.error = "AttachmentError"
            /\ result.draftId = None
            /\ store.drafts = 1
            /\ \E k \in 1..Len(bridgeLog) :
                  bridgeLog[k].prim = (IF args.isReply THEN "reply" ELSE "make")

\* C17's case: a reply to a message that exists, with an attachment that fails.
C17_Witness ==
    /\ op = "createDraft" /\ args.isReply /\ args.attachmentPath # ""
    /\ env.scripts = <<"ok", "fail", "text", "text", "text">>
    /\ Prims = <<"checkMailAccess", "activate", "reply", "readContent",
                 "setContentBodyAndQuote", "attach">>
    /\ ~result.success /\ store.drafts = 1

\* the positions of the bridge log that hold that primitive
Positions(prim) == {k \in 1..Len(bridgeLog) : bridgeLog[k].prim = prim}

-----------------------------------------------------------------------------
\* Properties of the process start

\* C23: the server is eventually initialized: initServer has been called as
\* soon as the eager load completed or failed or the timer fired, and not
\* before; when the timer is the first of the three the server starts in safe
\* mode, with the load still pending.
C23_ServerEventuallyInitialized ==
    /\ [](boot.servers = 0 <=> (boot.load = "pending" /\ boot.timer = "armed"))
    /\ [](boot.servers = 0 <=> boot.first = "none")
    /\ []((boot.first = "timeout" /\ boot.servers = 1) =>
              (boot.safeModeFallback /\ boot.mode = "safe" /\ boot.load = "pending"))
    /\ <>(boot.servers >= 1)

\* C23's case: the timer fired first and the server runs in safe mode while
\* the eager load is still pending.
C23_Witness ==
    /\ boot.first = "timeout" /\ boot.servers = 1
    /\ boot.mode = "safe" /\ boot.load = "pending"

\* C24: in every interleaving of the timer and the eager load initServer is
\* called at most once.  The timer callback does not stop attemptEagerLoading
\* from calling initServer when the import settles later.
C24_InitServerAtMostOnce == boot.servers <= 1

-----------------------------------------------------------------------------
\* Properties of the mutating operations

\* the places <<account index, mailbox index, position>> at which mailboxes of
\* that name of accounts of that name hold a message of that id
PlacesIn(st, account, mailbox, id) ==
    { p \in UNION { UNION { { <<i, k, n>> :
                                n \in 1..Len(st.accounts[i].mailboxes[k].messages) } :
                            k \in 1..Len(st.accounts[i].mailboxes) } :
                    i \in 1..Len(st.accounts) } :
        /\ st.accounts[p[1]].name = account
        /\ st.accounts[p[1]].mailboxes[p[2]].name = mailbox
        /\ st.accounts[p[1]].mailboxes[p[2]].messages[p[3]].messageId = id }

C26_FailedArchiveChangesNothing ==
    [][(op' = "archiveEmails" /\ ~result'.success) => store' = store]_vars

\* C27: moveEmails, copyEmails, archiveEmails and trashEmails always return:
\* the item echoes the messageId of the request, its success equals the
\* top-level success, and it carries an error whenever success is false.
C27_MutationsAlwaysReturnItem ==
    op \in {"moveEmails", "copyEmails", "archiveEmails", "trashEmails"} =>
        /\ result.status = "returned"
        /\ result.item.messageId = args.messageId
        /\ result.item.success = result.success
        /\ ~result.success => result.item.error.kind # "none"
        /\ (~env.access) => (~result.success /\ result.item.error.kind = "AccessFailed")
        /\ (env.access /\ env.directory # "ok") =>
              (~result.success /\ result.item.error.kind = "DirectoryFailed")
        /\ (env.access /\ env.directory = "ok" /\ env.scripts # <<>>
                /\ env.scripts[1] = "reject") =>
              (~result.success /\ result.item.error.kind = "ScriptRejected")

\* C27's case: run() rejects under trashEmails; the call returns the failed
\* item for the requested message.
C27_Witness ==
    /\ op = "trashEmails" /\ env.access /\ env.scripts = <<"reject">>
    /\ result.status = "returned" /\ ~result.success /\ ~result.item.success
    /\ result.item.messageId = args.messageId
    /\ result.item.error.kind = "ScriptRejected"

-----------------------------------------------------------------------------
\* Properties of the draft lifecycle

\* the script of createDraftEmail ran
DraftScriptRan ==
    /\ op = "createDraft" /\ result.status = "returned"
    /\ env.access /\ Step(env.scripts, 1) # "reject"

\* where the scan of the reply path finds the original (createDraft does not
\* touch the mailboxes)
Original ==
    Locate(store, IF TruthyId(args.originalMessageId)
                  THEN args.originalMessageId[1] ELSE 0, FALSE)

\* C28: in reply mode the reply is opened, the content merged and the
\* attachment added only after the original was located, in that order; when
\* no mailbox holds originalMessageId the call fails with the not-found reason
\* and creates no draft; every call ends either in success, with the id of the
\* saved draft, or in failure with the reason of the step that failed.
C28_DraftLifecycle ==
    op = "createDraft" =>
        /\ (args.isReply /\ Positions("reply") # {}) =>
              /\ Original # <<>>
              /\ \A k \in Positions("reply") :
                    /\ bridgeLog[k].account = Original[1].account
                    /\ bridgeLog[k].mailbox = Original[1].mailbox
              /\ \A k \in Positions("readContent") \cup Positions("setContentBodyOnly")
                          \cup Positions("setContentBodyAndQuote") :
                    \A r \in Positions("reply") : r < k
              /\ \A k \in Positions("attach") :
                    \A c \in Positions("setContentBodyOnly")
                               \cup Positions("setContentBodyAndQuote") : c < k
        /\ (args.isReply /\ Positions("reply") = {}) =>
              Positions("readContent") \cup Positions("setContentBodyOnly")
                  \cup Positions("setContentBodyAndQuote") \cup Positions("attach") = {}
        /\ (DraftScriptRan /\ args.isReply /\ Original = <<>>) =>
              /\ ~result.success /\ result.error = "OriginalNotFound"
              /\ result.draftId = None
              /\ store.drafts = 0
              /\ Prims = <<"checkMailAccess", "activate">>
        /\ result.success <=> result.error = "none"
        /\ result.success <=> result.draftId # None
        /\ result.success => (store.drafts = 1 /\ result.draftId = Some(1))
        /\ result.error = "AccessFailed" <=> ~env.access
        /\ result.error = "AttachmentError" =>
              (Positions("attach") # {} /\ env.scripts[2] = "fail")

\* C28's case: a reply to a message that no mailbox holds.
C28_Witness ==
    /\ DraftScriptRan /\ args.isReply /\ args.originalMessageId = Some(4)
    /\ Original = <<>>
    /\ result.error = "OriginalNotFound" /\ ~result.success
    /\ store.drafts = 0 /\ Positions("reply") = {}

-----------------------------------------------------------------------------
\* Properties of the concurrent fetches of listEmails

Unlimited ==
    listEmails(store, [args EXCEPT !.limit = NoLimit], env,
               [k \in 1..Len(env.scripts) |-> k]).result.emails

\* the message satisfies the isRead and isFlagged filters of the call
SatisfiesFilters(m) ==
    /\ args.isRead # None => m.isRead = args.isRead[1]
    /\ args.isFlagged # None => m.isFlagged = args.isFlagged[1]

\* C30: the filters are applied before the truncation: with a numeric limit L
\* listEmails returns the first min(L, k) of the k messages that satisfy the
\* filters, and every returned message satisfies them.  With L = 0 the code
\* returns all k.
C30_FiltersBeforeTruncation ==
    (ListReturned /\ args.limit.type = "number") =>
        LET k == Len(Unlimited)
            L == args.limit.value
        IN  /\ result.emails = SubSeq(Unlimited, 1, IF L < k THEN L ELSE k)
            /\ \A i \in 1..Len(result.emails) : SatisfiesFilters(result.emails[i])

-----------------------------------------------------------------------------
\* Properties of locating a message by id

\* the bridge calls that act on a message the script has located
ActsOnLocated(c) == c.prim \in {"move", "duplicate", "reply", "archive"}

\* C22: every operation that locates a message by id scans the enabled
\* accounts only: whenever a call acts on a message (moves, duplicates,
\* archives it or opens a reply to it), an enabled account of the store the
\* call started from holds that message.  moveEmails, copyEmails, trashEmails
\* and the reply path scan every account, enabled or not.
C22_LocatesInEnabledAccountsOnly ==
    [][\A k \in 1..Len(bridgeLog') :
          ActsOnLocated(bridgeLog'[k]) =>
              Locate(store, bridgeLog'[k].messageId, TRUE) # <<>>]_vars

=============================================================================
